---- MODULE Spec2Model ----
(***************************************************************************)
(* Model of the conversion orchestration hook useConverter                 *)
(* (src/unnamed/part_000) of vid2mp4.                                      *)
(*                                                                         *)
(* The hook runs on the browser's single-threaded event loop.  One action  *)
(* of the model is one task of that loop: a call of one of the hook's      *)
(* operations by the presentation layer, or the settling of one awaited    *)
(* engine call together with every continuation that runs before the next  *)
(* await (the rest of convertFile, the next iteration of the loop of       *)
(* startConversion, the return of startConversion).                        *)
(*                                                                         *)
(* The transcoding engine (@diffusion-studio/ffmpeg-js) is an external     *)
(* collaborator.  Each of its asynchronous calls settles with an outcome   *)
(* chosen by the environment.  Its onMessage(cb) adds cb to the engine's   *)
(* callbacks; the hook never removes one.                                  *)
(***************************************************************************)
EXTENDS Integers, Sequences, FiniteSets, TLC

\* ------------------------------------------------------------------ bounds
\* Files ever added to the store.
MaxFiles == 2
\* Accepted startConversion calls with a non-empty snapshot.
MaxRuns == 2

\* ------------------------------------------------------------- value space
\* outputUrl: null
NullUrl == 0
\* conversionTime: null
NullTime == -1
\* error: undefined (the field is absent from a new FileItem)
NoError == "<undefined>"

Modes == {"sequential", "parallel"}

\* Values an engine call may throw: an Error with a message, and a value
\* that is not an Error.
ThrownValues ==
    { [isError |-> TRUE, message |-> "engine failure"],
      [isError |-> FALSE, message |-> "not an Error"] }

\* The thrown values that are Errors.
ErrorsThrown == { e \in ThrownValues : e.isError }

\* meta.duration in seconds; 0 stands for every falsy value (undefined, 0).
Durations == {0, 1}

\* Math.round(performance.now() - startTime): a sample measured time.
ElapsedValues == {1200}

\* The messages an engine writes to its callbacks during exec, already split
\* at "=" into type and value; the value is text, a sequence of characters.
Messages ==
    { [type |-> "out_time_ms", value |-> << "5", "0", "0", "0", "0", "0" >>],
      [type |-> "total_size", value |-> << "1", "0", "4", "8", "5", "7", "6" >>],
      [type |-> "frame", value |-> << "1" >>] }

\* Further values of ffmpeg's -progress output: a time before the start, a
\* time beyond the probed duration, an earlier time, and "N/A".
MessagesWide ==
    Messages \cup
    { [type |-> "out_time_ms", value |-> << "-", "1", "0", "0", "0", "0", "0", "0" >>],
      [type |-> "out_time_ms", value |-> << "2", "0", "0", "0", "0", "0", "0" >>],
      [type |-> "out_time_ms", value |-> << "2", "5", "0", "0", "0", "0" >>],
      [type |-> "out_time_ms", value |-> << "N", "/", "A" >>] }

\* NaN, as a number no computation of the model yields.
NaN == -2147483647

VARIABLES
    files,          \* useState<FileItem[]>: the job store, in insertion order
    isReady,        \* useState: the shared engine's whenReady has fired
    isProcessing,   \* useState: what the presentation layer is told
    processingRef,  \* useRef: the running / cancellation flag
    nextId,         \* the number of ids generateId has produced
    nextUrl,        \* the number of object URLs createObjectURL has produced
    revoked,        \* how often each object URL was passed to revokeObjectURL
    listeners,      \* the callbacks attached to the shared engine, in order
    runs,           \* the accepted startConversion invocations, in order
    cancelled       \* history: the runs that had not returned at a stopConversion

vars == << files, isReady, isProcessing, processingRef, nextId, nextUrl,
           revoked, listeners, runs, cancelled >>

\* ------------------------------------------------------------------ helpers
Min(a, b) == IF a <= b THEN a ELSE b

\* Math.round(n / m) for m > 0: the nearest integer, halves towards +infinity.
Round(n, m) == (2 * n + m) \div (2 * m)

DigitValue ==
    [c \in {"0", "1", "2", "3", "4", "5", "6", "7", "8", "9"} |->
        CASE c = "0" -> 0 [] c = "1" -> 1 [] c = "2" -> 2 [] c = "3" -> 3
          [] c = "4" -> 4 [] c = "5" -> 5 [] c = "6" -> 6 [] c = "7" -> 7
          [] c = "8" -> 8 [] c = "9" -> 9]

\* The value of the leading digits of s, after acc.
RECURSIVE ParseDigits(_, _)
ParseDigits(s, acc) ==
    IF s = << >> \/ Head(s) \notin DOMAIN DigitValue THEN acc
    ELSE ParseDigits(Tail(s), acc * 10 + DigitValue[Head(s)])

\* parseInt(s): an optional sign, then the leading digits; NaN without one.
parseInt(s) ==
    LET signed == s # << >> /\ Head(s) \in {"-", "+"}
        rest   == IF signed THEN Tail(s) ELSE s
    IN  IF rest = << >> \/ Head(rest) \notin DOMAIN DigitValue THEN NaN
        ELSE IF signed /\ Head(s) = "-" THEN 0 - ParseDigits(rest, 0)
        ELSE ParseDigits(rest, 0)

\* { ...f, ...updates }
Merge(f, updates) ==
    [k \in DOMAIN f \cup DOMAIN updates |->
        IF k \in DOMAIN updates THEN updates[k] ELSE f[k]]

\* updateFile without the comparison of ids.
updateEveryFile(fs, id, updates) ==
    [i \in 1..Len(fs) |-> Merge(fs[i], updates)]

\* prev.map((f) => (f.id === id ? { ...f, ...updates } : f))
updateFile(fs, id, updates) ==
    [i \in 1..Len(fs) |-> IF fs[i].id = id THEN Merge(fs[i], updates) ELSE fs[i]]

\* The FileItem addFiles builds for the file with the given id.
NewFileItem(id) ==
    [ id |-> id, status |-> "pending", progress |-> 0, outputUrl |-> NullUrl,
      outputSize |-> 0, conversionTime |-> NullTime, error |-> NoError ]

\* files.filter((f) => f.status === "pending"), as the ids of the items.
RECURSIVE PendingIds(_)
PendingIds(fs) ==
    IF fs = << >> THEN << >>
    ELSE (IF Head(fs).status = "pending" THEN << Head(fs).id >> ELSE << >>)
         \o PendingIds(Tail(fs))

\* error instanceof Error ? error.message : "Conversion failed"
ErrorText(e) == IF e.isError THEN e.message ELSE "Conversion failed"

\* updateFile(fileItem.id, { status: "converting", progress: 0 })
MarkConverting(fs, id) == updateFile(fs, id, [status |-> "converting", progress |-> 0])

\* The catch block of convertFile.
MarkFailed(fs, id, e) == updateFile(fs, id, [status |-> "error", error |-> ErrorText(e)])

\* The success update of convertFile.
MarkCompleted(fs, id, url, elapsed) ==
    updateFile(fs, id, [ status |-> "completed", progress |-> 100,
                         outputUrl |-> url, conversionTime |-> elapsed ])

\* The percentage with Math.floor in the place of Math.round.
ProgressOfTruncating(v, duration) ==
    IF v = NaN THEN NaN ELSE Min(99, (v * 100) \div (duration * 1000000))

\* Math.min(99, Math.round((v / (duration * 1e6)) * 100)) for v the result
\* of parseInt: NaN goes through Math.round and Math.min as NaN.
ProgressOf(v, duration) ==
    IF v = NaN THEN NaN ELSE Min(99, Round(v * 100, duration * 1000000))

\* The callback convertFile passes to ffmpeg.onMessage, closed over the
\* job's id and probed duration (l), applied to one message.
onMessage(fs, l, msg) ==
    LET fs1 == IF msg.type = "out_time_ms" /\ l.duration # 0
               THEN updateFile(fs, l.id,
                               [progress |-> ProgressOf(parseInt(msg.value), l.duration)])
               ELSE fs
    IN  IF msg.type = "total_size"
        THEN updateFile(fs1, l.id, [outputSize |-> parseInt(msg.value)])
        ELSE fs1

\* An engine calls each of its callbacks, in the order they were attached.
RECURSIVE Deliver(_, _, _)
Deliver(fs, ls, msg) ==
    IF ls = << >> THEN fs
    ELSE Deliver(onMessage(fs, Head(ls), msg), Tail(ls), msg)

\* Removal without URL.revokeObjectURL.
RevokeNothing(rv, fs) == rv

\* URL.revokeObjectURL(f.outputUrl) for every item of fs whose outputUrl is
\* set: rv counts the calls per URL.
RECURSIVE RevokeAll(_, _)
RevokeAll(rv, fs) ==
    IF fs = << >> THEN rv
    ELSE LET u  == Head(fs).outputUrl
             r1 == IF u = NullUrl THEN rv
                   ELSE [x \in DOMAIN rv \cup {u} |->
                           IF x = u THEN (IF u \in DOMAIN rv THEN rv[u] + 1 ELSE 1)
                           ELSE rv[x]]
         IN  RevokeAll(r1, Tail(fs))

IsCompleted(f) == f.status = "completed"
NotCompleted(f) == f.status # "completed"

\* ------------------------------------------------------- invocations (runs)
\* A run is one accepted startConversion invocation: its mode, its snapshot
\* pendingFiles (the ids), and per snapshot position the await at which that
\* convertFile call is suspended:
\*   "todo"   not called yet (sequential loop has not reached it)
\*   "ready"  await whenReady of its dedicated engine          (line 46)
\*   "buffer" await fileItem.file.arrayBuffer()                (line 53)
\*   "meta"   await ffmpeg.meta(inputData)                     (line 55)
\*   "write"  await ffmpeg.writeFile(...)                      (line 62)
\*   "exec"   await ffmpeg.exec(...)                           (line 75)
\*   "done"   returned
\*   "threw"  rejected (new FFmpeg threw, line 45)
\* state: "active" between the flag check and the return, "returned" after
\* lines 115-116, "rejected" when Promise.all rejected.
Job(r, k) == runs[r].snap[k]
Jobs == { rk \in (1..MaxRuns) \X (1..MaxFiles) :
            rk[1] <= Len(runs) /\ rk[2] <= Len(runs[rk[1]].snap) }
ActiveRuns == { r \in 1..Len(runs) : runs[r].state = "active" }
\* The startConversion calls that have not reached lines 115-116: the ones
\* awaiting their jobs and the ones that rejected at Promise.all.
UnreturnedRuns == { r \in 1..Len(runs) : runs[r].state # "returned" }

Init ==
    /\ files = << >>
    /\ isReady = FALSE
    /\ isProcessing = FALSE
    /\ processingRef = FALSE
    /\ nextId = 0
    /\ nextUrl = 0
    /\ revoked = [x \in {} |-> 0]
    /\ listeners = << >>
    /\ runs = << >>
    /\ cancelled = {}

\* ------------------------------------------------------ store operations
\* ffmpegRef.current.whenReady(() => setIsReady(true))
SharedReady ==
    /\ ~isReady
    /\ isReady' = TRUE
    /\ UNCHANGED << files, isProcessing, processingRef, nextId, nextUrl,
                    revoked, listeners, runs, cancelled >>

\* addFiles where the sequential loop reads the store, not its snapshot: the
\* new files join the snapshot of every active sequential run.
addFilesToRuns(n) ==
    /\ nextId + n <= MaxFiles
    /\ files' = files \o [i \in 1..n |-> NewFileItem(nextId + i)]
    /\ nextId' = nextId + n
    /\ runs' = [r \in 1..Len(runs) |->
                  IF runs[r].mode = "sequential" /\ runs[r].state = "active"
                  THEN [runs[r] EXCEPT
                          !.snap = @ \o [i \in 1..n |-> nextId + i],
                          !.pc = @ \o [i \in 1..n |-> "todo"],
                          !.dur = @ \o [i \in 1..n |-> 0]]
                  ELSE runs[r]]
    /\ UNCHANGED << isReady, isProcessing, processingRef, nextUrl, revoked,
                    listeners, cancelled >>

\* addFiles(newFiles) with n files; generateId yields an id not used before.
addFiles(n) ==
    /\ nextId + n <= MaxFiles
    /\ files' = files \o [i \in 1..n |-> NewFileItem(nextId + i)]
    /\ nextId' = nextId + n
    /\ UNCHANGED << isReady, isProcessing, processingRef, nextUrl, revoked,
                    listeners, runs, cancelled >>

\* A dropzone and a Convert button that are enabled from the start.
uiAlwaysReady == TRUE

\* The dropzone and the Convert button of App are disabled until isReady.
uiReady == isReady

\* The dropzone of App, which calls addFiles.
onDrop(n) ==
    /\ uiReady
    /\ addFiles(n)

removeFile(id) ==
    /\ LET found == SelectSeq(files, LAMBDA f : f.id = id)
       IN  revoked' = IF found # << >> THEN RevokeAll(revoked, << Head(found) >>)
                      ELSE revoked
    /\ files' = SelectSeq(files, LAMBDA f : f.id # id)
    /\ UNCHANGED << isReady, isProcessing, processingRef, nextId, nextUrl,
                    listeners, runs, cancelled >>

clearCompleted ==
    /\ revoked' = RevokeAll(revoked, SelectSeq(files, IsCompleted))
    /\ files' = SelectSeq(files, NotCompleted)
    /\ UNCHANGED << isReady, isProcessing, processingRef, nextId, nextUrl,
                    listeners, runs, cancelled >>

clearAll ==
    /\ revoked' = RevokeAll(revoked, files)
    /\ files' = << >>
    /\ UNCHANGED << isReady, isProcessing, processingRef, nextId, nextUrl,
                    listeners, runs, cancelled >>

\* ------------------------------------------------------------ the orchestrator
\* Lines 115-116: the invocation r returns.
Return(rs, r) ==
    /\ runs' = [rs EXCEPT ![r].state = "returned"]
    /\ processingRef' = FALSE
    /\ isProcessing' = FALSE

\* What runs after convertFile call k of run r has returned, the store being
\* fs: in sequential mode the next iteration of the loop (the flag check of
\* line 108, then the synchronous start of the next convertFile up to its
\* first await; ffmpegRef.current is set since the mount effect, so line 42
\* does not return), or the end of the loop; in parallel mode Promise.all,
\* which resolves when every call has returned and none was rejected.
AfterConvert(r, k, fs) ==
    LET run == runs[r]
        rs  == [runs EXCEPT ![r].pc[k] = "done", ![r].dur[k] = 0]
    IN  IF run.mode = "sequential"
        THEN IF k < Len(run.snap) /\ processingRef
             THEN /\ files' = MarkConverting(fs, run.snap[k + 1])
                  /\ runs' = [rs EXCEPT ![r].pc[k + 1] = "buffer"]
                  /\ UNCHANGED << processingRef, isProcessing >>
             ELSE /\ files' = fs
                  /\ Return(rs, r)
        ELSE IF run.state = "active"
                /\ \A j \in 1..Len(run.snap) : rs[r].pc[j] = "done"
             THEN /\ files' = fs
                  /\ Return(rs, r)
             ELSE /\ files' = fs
                  /\ runs' = rs
                  /\ UNCHANGED << processingRef, isProcessing >>

\* startConversion without the check of line 100.
startConversionUnguarded(mode, throwing) ==
    LET snap == PendingIds(files)
        n    == Len(snap)
    IN  /\ n > 0
        /\ Len(runs) < MaxRuns
        /\ throwing = {}
        /\ processingRef' = TRUE
        /\ isProcessing' = TRUE
        /\ files' = IF mode = "sequential" THEN MarkConverting(files, snap[1]) ELSE files
        /\ runs' = Append(runs,
              [ mode |-> mode, snap |-> snap, state |-> "active",
                dur |-> [j \in 1..n |-> 0],
                pc |-> [j \in 1..n |->
                          IF mode = "parallel" THEN "ready"
                          ELSE IF j = 1 THEN "buffer" ELSE "todo"] ])
        /\ UNCHANGED << isReady, nextId, nextUrl, revoked, listeners, cancelled >>

\* startConversion(mode).  While processingRef.current is set, line 100
\* returns.  With no pending file the flag is set and cleared again before
\* the call yields.  Otherwise the invocation is accepted: in sequential mode
\* the first convertFile call runs to its first await; in parallel mode every
\* call constructs its engine and awaits its readiness.  throwing is the set
\* of snapshot positions whose new FFmpeg(...) throws: such a call is rejected
\* before its try block, so Promise.all rejects and lines 115-116 are not
\* reached.
startConversion(mode, throwing) ==
    LET snap == PendingIds(files)
        n    == Len(snap)
    IN  IF processingRef \/ n = 0
        THEN /\ throwing = {}
             /\ UNCHANGED vars
        ELSE /\ Len(runs) < MaxRuns
             /\ throwing \subseteq 1..n
             /\ mode = "sequential" => throwing = {}
             /\ processingRef' = TRUE
             /\ isProcessing' = TRUE
             /\ IF mode = "sequential"
                THEN /\ files' = MarkConverting(files, snap[1])
                     /\ runs' = Append(runs,
                           [ mode |-> mode, snap |-> snap, state |-> "active",
                             dur |-> [j \in 1..n |-> 0],
                             pc |-> [j \in 1..n |-> IF j = 1 THEN "buffer" ELSE "todo"] ])
                ELSE /\ files' = files
                     /\ runs' = Append(runs,
                           [ mode |-> mode, snap |-> snap,
                             state |-> IF throwing = {} THEN "active" ELSE "rejected",
                             dur |-> [j \in 1..n |-> 0],
                             pc |-> [j \in 1..n |->
                                       IF j \in throwing THEN "threw" ELSE "ready"] ])
             /\ UNCHANGED << isReady, nextId, nextUrl, revoked, listeners, cancelled >>

\* stopConversion that also puts the jobs in flight back to pending.
stopConversionResetting ==
    /\ processingRef' = FALSE
    /\ isProcessing' = FALSE
    /\ cancelled' = cancelled \cup UnreturnedRuns
    /\ files' = [i \in 1..Len(files) |->
                   IF files[i].status = "converting"
                   THEN [files[i] EXCEPT !.status = "pending"]
                   ELSE files[i]]
    /\ UNCHANGED << isReady, nextId, nextUrl, revoked, listeners, runs >>

stopConversion ==
    /\ processingRef' = FALSE
    /\ isProcessing' = FALSE
    /\ cancelled' = cancelled \cup UnreturnedRuns
    /\ UNCHANGED << files, isReady, nextId, nextUrl, revoked, listeners, runs >>

\* The Convert button of App, which calls startConversion(mode).  Of the
\* button's conditions only isReady is assumed: the hook checks the running
\* flag and the pending files itself.
handleConvert(mode, throwing) ==
    /\ uiReady
    /\ startConversion(mode, throwing)

\* --------------------------------------------------- the steps of convertFile
\* The dedicated engine of call k of run r reports ready (line 46 resolves).
dedicatedReady(r, k) ==
    /\ runs[r].pc[k] = "ready"
    /\ files' = MarkConverting(files, Job(r, k))
    /\ runs' = [runs EXCEPT ![r].pc[k] = "buffer"]
    /\ UNCHANGED << isReady, isProcessing, processingRef, nextId, nextUrl,
                    revoked, listeners, cancelled >>

\* arrayBuffer() resolves; ffmpeg.meta is called.
bufferResolves(r, k) ==
    /\ runs[r].pc[k] = "buffer"
    /\ runs' = [runs EXCEPT ![r].pc[k] = "meta"]
    /\ UNCHANGED << files, isReady, isProcessing, processingRef, nextId,
                    nextUrl, revoked, listeners, cancelled >>

\* ffmpeg.meta resolves with duration d; ffmpeg.writeFile is called.
metaResolves(r, k, d) ==
    /\ runs[r].pc[k] = "meta"
    /\ runs' = [runs EXCEPT ![r].pc[k] = "write", ![r].dur[k] = d]
    /\ UNCHANGED << files, isReady, isProcessing, processingRef, nextId,
                    nextUrl, revoked, listeners, cancelled >>

\* ffmpeg.writeFile resolves; the callback is attached and exec is called.
\* The shared engine keeps every callback attached to it; a dedicated
\* engine has this one only.
writeResolves(r, k) ==
    /\ runs[r].pc[k] = "write"
    /\ runs' = [runs EXCEPT ![r].pc[k] = "exec"]
    /\ listeners' = IF runs[r].mode = "sequential"
                    THEN Append(listeners, [id |-> Job(r, k), duration |-> runs[r].dur[k]])
                    ELSE listeners
    /\ UNCHANGED << files, isReady, isProcessing, processingRef, nextId,
                    nextUrl, revoked, cancelled >>

\* The callbacks that receive the messages of the exec of call k of run r.
CallbacksOf(r, k) ==
    IF runs[r].mode = "sequential"
    THEN listeners
    ELSE << [id |-> Job(r, k), duration |-> runs[r].dur[k]] >>

\* The engine running the exec of call k of run r emits msg.
engineMessage(r, k, msg) ==
    /\ runs[r].pc[k] = "exec"
    /\ files' = Deliver(files, CallbacksOf(r, k), msg)
    /\ UNCHANGED << isReady, isProcessing, processingRef, nextId, nextUrl,
                    revoked, listeners, runs, cancelled >>

\* ffmpeg.exec resolves and readFile returns: the output URL is created and
\* the record updated (lines 77-87).
execResolves(r, k, elapsed) ==
    /\ runs[r].pc[k] = "exec"
    /\ nextUrl' = nextUrl + 1
    /\ AfterConvert(r, k, MarkCompleted(files, Job(r, k), nextUrl + 1, elapsed))
    /\ UNCHANGED << isReady, nextId, revoked, listeners, cancelled >>

\* The awaited call of step "buffer", "meta", "write" or "exec" rejects with
\* e, or exec resolves and readFile throws e: the catch block runs.
stepFails(r, k, e) ==
    /\ runs[r].pc[k] \in {"buffer", "meta", "write", "exec"}
    /\ AfterConvert(r, k, MarkFailed(files, Job(r, k), e))
    /\ UNCHANGED << isReady, nextId, nextUrl, revoked, listeners, cancelled >>

\* ------------------------------------------------------------ specification
Next ==
    \/ SharedReady
    \/ \E n \in 1..MaxFiles : onDrop(n)
    \/ \E id \in 1..nextId : removeFile(id)
    \/ clearCompleted
    \/ clearAll
    \/ \E mode \in Modes, t \in SUBSET (1..MaxFiles) : handleConvert(mode, t)
    \/ stopConversion
    \/ \E rk \in Jobs : dedicatedReady(rk[1], rk[2])
    \/ \E rk \in Jobs : bufferResolves(rk[1], rk[2])
    \/ \E rk \in Jobs, d \in Durations : metaResolves(rk[1], rk[2], d)
    \/ \E rk \in Jobs : writeResolves(rk[1], rk[2])
    \/ \E rk \in Jobs, msg \in Messages : engineMessage(rk[1], rk[2], msg)
    \/ \E rk \in Jobs, t \in ElapsedValues : execResolves(rk[1], rk[2], t)
    \/ \E rk \in Jobs, e \in ErrorsThrown : stepFails(rk[1], rk[2], e)

Spec == Init /\ [][Next]_vars

\* ------------------------------------------------------------------ claims
\* The status of the record with the given id in store fs, "absent" if none.
StatusOf(fs, id) ==
    IF \E i \in 1..Len(fs) : fs[i].id = id
    THEN fs[CHOOSE i \in 1..Len(fs) : fs[i].id = id].status
    ELSE "absent"

\* The record with the given id in store fs (there is one).
RecordOf(fs, id) == fs[CHOOSE i \in 1..Len(fs) : fs[i].id = id]

InFlight == {"ready", "buffer", "meta", "write", "exec"}
Terminal == {"completed", "error"}

\* Some convertFile call for the record has returned: it wrote Completed or
\* Failed to the record, if the record was in the store then.
ReachedTerminal(id) ==
    \E rk \in Jobs : Job(rk[1], rk[2]) = id /\ runs[rk[1]].pc[rk[2]] = "done"

\* C1: in every step, a record's status stays as it is or changes by
\* Pending->Converting, Converting->Completed or Converting->Failed (or the
\* record is removed).
C1_StatusTransitions ==
    [][ \A id \in 1..nextId :
          LET a == StatusOf(files, id)
              b == StatusOf(files', id)
          IN  \/ a = b
              \/ b = "absent"
              \/ << a, b >> \in { << "pending", "converting" >>,
                                  << "converting", "completed" >>,
                                  << "converting", "error" >> } ]_vars

\* C2: at most one invocation of startConversion is between its flag check
\* and its return.
C2_OneActiveRun == Cardinality(ActiveRuns) <= 1

\* C3: startConversion called while the running flag is set changes no job
\* record, dispatches nothing, and leaves the flag and isProcessing as they
\* are.
C3_StartWhileRunningNoOp ==
    [][ \A mode \in Modes, t \in SUBSET (1..MaxFiles) :
          (processingRef /\ startConversion(mode, t))
             => UNCHANGED << files, runs, processingRef, isProcessing >> ]_vars

\* C3 witness: the flag is set by a run with a job in flight, and a file is
\* pending that an accepted start would dispatch.
C3_Witness ==
    /\ processingRef
    /\ PendingIds(files) # << >>
    /\ Len(runs) < MaxRuns
    /\ \E rk \in Jobs : runs[rk[1]].pc[rk[2]] \in InFlight

\* C4: while a sequential run is active and was not cancelled, the record
\* of its snapshot job k+1 becomes Converting only when job k has reached
\* Completed or Failed.
C4_SequentialOrder ==
    [][ \A r \in ActiveRuns :
          (runs[r].mode = "sequential" /\ r \notin cancelled)
            => \A k \in 1..(Len(runs[r].snap) - 1) :
                 (StatusOf(files, Job(r, k + 1)) = "pending"
                    /\ StatusOf(files', Job(r, k + 1)) = "converting")
                   => ReachedTerminal(Job(r, k))' ]_vars

\* C5: a sequential run that was active at a stopConversion starts no
\* further job: a call it had not made at the stop is never made.
C5_StoppedRunStartsNothing ==
    [][ \A r \in cancelled :
          runs[r].mode = "sequential"
            => \A k \in 1..Len(runs[r].snap) :
                 runs[r].pc[k] = "todo" => runs'[r].pc[k] = "todo" ]_vars

\* C6: stopConversion clears the running flag and isProcessing in one step
\* and changes no job record.
C6_StopFrame ==
    [][ stopConversion
          => (~processingRef' /\ ~isProcessing' /\ files' = files) ]_vars

\* C6 witness: after stopConversion, a stopped sequential run and a stopped
\* parallel run each have a job in flight whose record is Converting.
C6_Witness ==
    /\ ~processingRef
    /\ ~isProcessing
    /\ \E r1 \in cancelled, r2 \in cancelled :
         /\ runs[r1].mode = "sequential"
         /\ runs[r2].mode = "parallel"
         /\ \E k \in 1..Len(runs[r1].snap) :
              runs[r1].pc[k] \in InFlight /\ StatusOf(files, Job(r1, k)) = "converting"
         /\ \E k \in 1..Len(runs[r2].snap) :
              runs[r2].pc[k] \in InFlight /\ StatusOf(files, Job(r2, k)) = "converting"

\* C7: when a step of job k fails in an active sequential run that was not
\* cancelled, job k's record becomes Failed, no other record changes except
\* that the next job of the snapshot is dispatched (its record, if still
\* in the store, becomes Converting), and a next job, if any, is dispatched.
C7_SequentialFailureIsolated ==
    [][ \A rk \in Jobs, e \in ThrownValues :
          LET r == rk[1]
              k == rk[2]
          IN  ( /\ runs[r].mode = "sequential"
                /\ runs[r].state = "active"
                /\ r \notin cancelled
                /\ stepFails(r, k, e) )
              => /\ StatusOf(files, Job(r, k)) # "absent"
                      => StatusOf(files', Job(r, k)) = "error"
                 /\ k < Len(runs[r].snap) => runs'[r].pc[k + 1] = "buffer"
                 /\ \A i \in 1..Len(files) :
                      \/ files'[i] = files[i]
                      \/ files[i].id = Job(r, k)
                      \/ k < Len(runs[r].snap) /\ files[i].id = Job(r, k + 1) ]_vars

\* C8: in parallel mode a job whose engine construction failed is Failed
\* with an error message, and its invocation of startConversion was not
\* rejected.
C8_EngineFailureIsJobFailure ==
    \A rk \in Jobs :
        runs[rk[1]].pc[rk[2]] = "threw"
          => /\ runs[rk[1]].state # "rejected"
             /\ StatusOf(files, Job(rk[1], rk[2])) \in {"error", "absent"}
             /\ StatusOf(files, Job(rk[1], rk[2])) = "error"
                  => RecordOf(files, Job(rk[1], rk[2])).error # NoError

\* C9: the settling of the duration probe, rejected or without a duration,
\* does not end the job: the procedure goes on to write the input; and a
\* job converting without a known duration keeps progress 0.
C9_ProbeFailureNotFatal ==
    [][ \A rk \in Jobs :
          LET r == rk[1]
              k == rk[2]
          IN  /\ (runs[r].pc[k] = "meta" /\ runs'[r].pc[k] # "meta")
                   => runs'[r].pc[k] = "write"
              /\ ( /\ runs'[r].pc[k] = "exec"
                    /\ runs'[r].dur[k] = 0
                    /\ StatusOf(files', Job(r, k)) = "converting" )
                   => RecordOf(files', Job(r, k)).progress = 0 ]_vars

\* C10: a message emitted during the exec of job J changes no record but
\* J's.
C10_MessagesScopedToJob ==
    [][ \A rk \in Jobs, msg \in Messages :
          engineMessage(rk[1], rk[2], msg)
            => \A i \in 1..Len(files) :
                 files[i].id # Job(rk[1], rk[2]) => files'[i] = files[i] ]_vars

\* --------------------------------------------- progress reporting, in detail
\* The runs of one batch at a time (no stopConversion, no removal), with every
\* kind of value the engine's progress output holds.
NextProgress ==
    \/ SharedReady
    \/ \E n \in 1..MaxFiles : onDrop(n)
    \/ \E mode \in Modes : handleConvert(mode, {})
    \/ \E rk \in Jobs : dedicatedReady(rk[1], rk[2])
    \/ \E rk \in Jobs : bufferResolves(rk[1], rk[2])
    \/ \E rk \in Jobs, d \in Durations : metaResolves(rk[1], rk[2], d)
    \/ \E rk \in Jobs : writeResolves(rk[1], rk[2])
    \/ \E rk \in Jobs, msg \in MessagesWide : engineMessage(rk[1], rk[2], msg)
    \/ \E rk \in Jobs, t \in ElapsedValues : execResolves(rk[1], rk[2], t)
    \/ \E rk \in Jobs, e \in ErrorsThrown : stepFails(rk[1], rk[2], e)

SpecProgress == Init /\ [][NextProgress]_vars

\* C11: every record's progress is an integer in 0..100, and at most 99
\* while the record is Converting.
C11_ProgressRange ==
    \A i \in 1..Len(files) :
        /\ files[i].progress \in 0..100
        /\ files[i].status = "converting" => files[i].progress <= 99

\* C12: in every step, the progress of a record that is Converting before
\* and after the step does not decrease (a step to NaN is left aside here:
\* C11 covers it).
C12_ProgressMonotone ==
    [][ \A id \in 1..nextId :
          (StatusOf(files, id) = "converting" /\ StatusOf(files', id) = "converting")
            => \/ RecordOf(files', id).progress = NaN
               \/ RecordOf(files', id).progress >= RecordOf(files, id).progress ]_vars

\* C13: a record has an output URL exactly when its status is Completed.
C13_ArtifactIffCompleted ==
    \A i \in 1..Len(files) :
        (files[i].outputUrl # NullUrl) <=> (files[i].status = "completed")

\* C14: a Pending record has progress 0, output size 0, no output URL and no
\* error message.
C14_PendingIsBlank ==
    \A i \in 1..Len(files) :
        files[i].status = "pending"
          => /\ files[i].progress = 0
             /\ files[i].outputSize = 0
             /\ files[i].outputUrl = NullUrl
             /\ files[i].error = NoError

\* C14 witness: a record is Pending while a job is in flight and engine
\* messages or a terminal update have already written to another record.
C14_Witness ==
    /\ \E i \in 1..Len(files) : files[i].status = "pending"
    /\ \E i \in 1..Len(files) :
         /\ files[i].outputSize # 0
         /\ files[i].progress # 0
    /\ \E rk \in Jobs : runs[rk[1]].pc[rk[2]] = "exec"

\* How often URL u was revoked, by the count rv.
TimesRevoked(rv, u) == IF u \in DOMAIN rv THEN rv[u] ELSE 0

\* C15: no URL is revoked more than once, and a step that removes a
\* Completed record from the store revokes that record's URL once.
C15_ReleasedExactlyOnce ==
    /\ [](\A u \in DOMAIN revoked : revoked[u] <= 1)
    /\ [][ \A i \in 1..Len(files) :
             (files[i].status = "completed" /\ StatusOf(files', files[i].id) = "absent")
               => TimesRevoked(revoked', files[i].outputUrl)
                    = TimesRevoked(revoked, files[i].outputUrl) + 1 ]_vars

\* C15 witness: two URLs were created, each was revoked once, and no record
\* of the store holds a URL (the Completed records were removed).
C15_Witness ==
    /\ nextUrl >= 2
    /\ \A u \in 1..nextUrl : TimesRevoked(revoked, u) = 1
    /\ \A i \in 1..Len(files) : files[i].outputUrl = NullUrl

\* C16: every URL created and not revoked is the output URL of exactly one
\* record of the store.
C16_ArtifactOwnedByOneRecord ==
    \A u \in 1..nextUrl :
        TimesRevoked(revoked, u) = 0
          => Cardinality({ i \in 1..Len(files) : files[i].outputUrl = u }) = 1

\* The ids of a snapshot.
SnapIds(run) == { run.snap[k] : k \in 1..Len(run.snap) }

\* C17: the snapshot of an accepted run never changes and holds no file
\* added after it was taken, and a record goes from Pending to Converting
\* only in a step in which a run whose snapshot holds it starts (or, with a
\* dedicated engine, resumes) its convertFile call.
C17_SnapshotAtCallTime ==
    [][ /\ \A r \in 1..Len(runs) : runs'[r].snap = runs[r].snap
        /\ \A id \in (nextId + 1)..nextId' :
             \A r \in 1..Len(runs') : id \notin SnapIds(runs'[r])
        /\ \A id \in 1..nextId :
             (StatusOf(files, id) = "pending" /\ StatusOf(files', id) = "converting")
               => \E r \in 1..Len(runs') :
                    \E k \in 1..Len(runs'[r].snap) :
                       /\ runs'[r].snap[k] = id
                       /\ runs'[r].pc[k] = "buffer"
                       /\ r <= Len(runs) => runs[r].pc[k] \in {"todo", "ready"} ]_vars

\* C17 witness: a run has returned, and a file that is in no snapshot (it
\* was added after the run was accepted) is still Pending.
C17_Witness ==
    /\ \E r \in 1..Len(runs) :
         /\ runs[r].state = "returned"
         /\ \A k \in 1..Len(runs[r].snap) : runs[r].pc[k] = "done"
    /\ \E i \in 1..Len(files) :
         /\ files[i].status = "pending"
         /\ \A r \in 1..Len(runs) : files[i].id \notin SnapIds(runs[r])

\* C18: when every convertFile call of a parallel run has settled, every
\* job of its snapshot has run to a terminal write; and that write is
\* Completed when the job's exec resolves and Failed when one of its steps
\* fails, whatever the other jobs do.
C18_ParallelAllTerminal ==
    /\ [](\A r \in 1..Len(runs) :
            (runs[r].mode = "parallel"
               /\ \A k \in 1..Len(runs[r].snap) : runs[r].pc[k] \notin InFlight)
              => \A k \in 1..Len(runs[r].snap) : runs[r].pc[k] = "done")
    /\ [][ \A rk \in Jobs :
             runs[rk[1]].mode = "parallel"
               => /\ (\E t \in ElapsedValues : execResolves(rk[1], rk[2], t))
                       => StatusOf(files', Job(rk[1], rk[2])) \in {"completed", "absent"}
                  /\ (\E e \in ErrorsThrown : stepFails(rk[1], rk[2], e))
                       => StatusOf(files', Job(rk[1], rk[2])) \in {"error", "absent"} ]_vars

\* Job k of run r was dispatched: every job of a parallel run, and in a
\* sequential run the jobs whose convertFile call was made.
Dispatched(r, k) == runs[r].mode = "parallel" \/ runs[r].pc[k] # "todo"

\* C19: when every convertFile call of a run that was stopped has settled,
\* every job the run had dispatched has run its procedure to the terminal
\* write (Completed or Failed).
C19_StoppedJobsFinish ==
    \A r \in cancelled :
        (\A k \in 1..Len(runs[r].snap) : runs[r].pc[k] \notin InFlight)
          => \A k \in 1..Len(runs[r].snap) :
               Dispatched(r, k) => runs[r].pc[k] = "done"

\* C20: before the shared engine's readiness signal, no record is
\* Converting, no sequential run has made a convertFile call, and no
\* callback is registered on the shared engine.
C20_NoSequentialWorkBeforeReady ==
    ~isReady
      => /\ \A i \in 1..Len(files) : files[i].status # "converting"
         /\ \A r \in 1..Len(runs) :
              runs[r].mode = "sequential"
                => \A k \in 1..Len(runs[r].snap) : runs[r].pc[k] = "todo"
         /\ listeners = << >>

\* C20 witness: after the readiness signal a sequential run has a job in
\* flight on the shared engine, its record Converting and its callback
\* registered.
C20_Witness ==
    /\ isReady
    /\ \E r \in 1..Len(runs) :
         /\ runs[r].mode = "sequential"
         /\ \E k \in 1..Len(runs[r].snap) :
              /\ runs[r].pc[k] = "exec"
              /\ StatusOf(files, Job(r, k)) = "converting"
              /\ \E j \in 1..Len(listeners) : listeners[j].id = Job(r, k)

\* ---------------------------------------------------------------- failures
\* The thrown values, with an Error that has no message (new Error()).
ThrownWide == ThrownValues \cup { [isError |-> TRUE, message |-> ""] }

\* Runs of either mode whose steps may fail with any of these values.
NextFailure ==
    \/ SharedReady
    \/ \E n \in 1..MaxFiles : onDrop(n)
    \/ \E mode \in Modes : handleConvert(mode, {})
    \/ \E rk \in Jobs : dedicatedReady(rk[1], rk[2])
    \/ \E rk \in Jobs : bufferResolves(rk[1], rk[2])
    \/ \E rk \in Jobs, d \in Durations : metaResolves(rk[1], rk[2], d)
    \/ \E rk \in Jobs : writeResolves(rk[1], rk[2])
    \/ \E rk \in Jobs, msg \in Messages : engineMessage(rk[1], rk[2], msg)
    \/ \E rk \in Jobs, t \in ElapsedValues : execResolves(rk[1], rk[2], t)
    \/ \E rk \in Jobs, e \in ThrownWide : stepFails(rk[1], rk[2], e)

SpecFailure == Init /\ [][NextFailure]_vars

\* C21: a step in which a step of a job's procedure fails sets the job's
\* record (if it is in the store) to Failed with an error message that is
\* not empty, and leaves the record's progress, output size, output URL and
\* elapsed time as they were.
C21_FailureFrame ==
    [][ \A rk \in Jobs, e \in ThrownWide :
          (stepFails(rk[1], rk[2], e) /\ StatusOf(files, Job(rk[1], rk[2])) # "absent")
            => LET a == RecordOf(files, Job(rk[1], rk[2]))
                   b == RecordOf(files', Job(rk[1], rk[2]))
               IN  /\ b.status = "error"
                   /\ b.error \notin {"", NoError}
                   /\ b.progress = a.progress
                   /\ b.outputSize = a.outputSize
                   /\ b.outputUrl = a.outputUrl
                   /\ b.conversionTime = a.conversionTime ]_vars

\* ------------------------------------------------------------- identifiers
\* Date.now(): milliseconds, counted from some instant.
Timestamps == {1, 2, 3}

\* Math.random().toString(36).slice(2): the digits after "0."; Math.random()
\* = 0 prints as "0" and leaves the empty text.
RandomTexts == {"4fzyo82m", "k3", ""}

\* `${Date.now()}-${Math.random().toString(36).slice(2)}`, as the parts of
\* the text: the random part holds no "-", so different parts give
\* different texts.
generateId(now, rnd) == << now, "-", rnd >>

\* addFiles(newFiles) where gen[i] is what Date.now() and Math.random()
\* return in the call of generateId for the i-th file.
addFilesGenerated(gen) ==
    /\ nextId + Len(gen) <= MaxFiles
    /\ files' = files \o [i \in 1..Len(gen) |->
                            NewFileItem(generateId(gen[i][1], gen[i][2]))]
    /\ nextId' = nextId + Len(gen)
    /\ UNCHANGED << isReady, isProcessing, processingRef, nextUrl, revoked,
                    listeners, runs, cancelled >>

\* The sequences of length n of results of Date.now() and Math.random().
Generated(n) == [1..n -> Timestamps \X RandomTexts]

\* Adding and removing files, with the identifiers generateId computes.
NextIds ==
    \/ SharedReady
    \/ \E n \in 1..MaxFiles : \E gen \in Generated(n) : uiReady /\ addFilesGenerated(gen)
    \/ \E i \in 1..Len(files) : removeFile(files[i].id)
    \/ clearAll

SpecIds == Init /\ [][NextIds]_vars

\* C22: the identifiers of the records in the store are pairwise distinct
\* (the part of the claim about the records present together; identifiers
\* of removed records are not needed to refute it).
C22_IdsDistinct ==
    \A i \in 1..Len(files), j \in 1..Len(files) :
        i # j => files[i].id # files[j].id

\* ------------------------------------------------- the shared engine, the flags
\* The convertFile calls in flight on the shared engine.
SharedInFlight ==
    { rk \in Jobs : /\ runs[rk[1]].mode = "sequential"
                     /\ runs[rk[1]].pc[rk[2]] \in InFlight }

\* C23: at most one convertFile call is in flight on the shared engine.
C23_SharedEngineOneJob == Cardinality(SharedInFlight) <= 1

\* C24: when no convertFile call of any run is in flight, the orchestrator
\* is Idle: the running flag is cleared and isProcessing is false.
C24_IdleWhenSettled ==
    (\A rk \in Jobs : runs[rk[1]].pc[rk[2]] \notin InFlight)
      => (~processingRef /\ ~isProcessing)

\* C25: in every step, a record that is Completed before and after keeps
\* progress 100 and its output size, and a record that is Failed before and
\* after keeps its progress and output size.
C25_TerminalFieldsFixed ==
    [][ \A id \in 1..nextId :
          (StatusOf(files, id) \in Terminal /\ StatusOf(files', id) = StatusOf(files, id))
            => /\ RecordOf(files', id).progress = RecordOf(files, id).progress
               /\ RecordOf(files', id).outputSize = RecordOf(files, id).outputSize
               /\ StatusOf(files, id) = "completed"
                    => RecordOf(files', id).progress = 100 ]_vars

\* C26: the running flag and isProcessing go from true to false only in a
\* stopConversion step or in the step in which the latest accepted run (the
\* one that set them) returns.
C26_FlagsHeldByLatestRun ==
    [][ ((processingRef /\ ~processingRef') \/ (isProcessing /\ ~isProcessing'))
          => \/ stopConversion
             \/ /\ runs # << >>
                /\ runs[Len(runs)].state = "active"
                /\ runs'[Len(runs)].state = "returned" ]_vars

\* ------------------------------------------------------ the progress relay
\* The decimal text of a natural number, as the engine prints it.
RECURSIVE ToText(_)
ToText(n) ==
    LET digit == CHOOSE c \in DOMAIN DigitValue : DigitValue[c] = n % 10
    IN  IF n < 10 THEN << digit >> ELSE Append(ToText(n \div 10), digit)

\* Keys of the engine's progress lines.
EventKeys == {"out_time_ms", "total_size", "frame", "speed"}

\* Numbers the engine reports for them.
EventNumbers == {0, 5000, 500000, 2000000}

\* The progress lines with these keys and numbers, split at "=".
MessagesRelay ==
    { [type |-> key, value |-> ToText(t)] : key \in EventKeys, t \in EventNumbers }

\* meta.duration: unknown (0), one second, three seconds.
DurationsRelay == {0, 1, 3}

\* Runs of either mode, with these durations and progress lines.
NextRelay ==
    \/ SharedReady
    \/ \E n \in 1..MaxFiles : onDrop(n)
    \/ \E mode \in Modes : handleConvert(mode, {})
    \/ \E rk \in Jobs : dedicatedReady(rk[1], rk[2])
    \/ \E rk \in Jobs : bufferResolves(rk[1], rk[2])
    \/ \E rk \in Jobs, d \in DurationsRelay : metaResolves(rk[1], rk[2], d)
    \/ \E rk \in Jobs : writeResolves(rk[1], rk[2])
    \/ \E rk \in Jobs, msg \in MessagesRelay : engineMessage(rk[1], rk[2], msg)
    \/ \E rk \in Jobs, t \in ElapsedValues : execResolves(rk[1], rk[2], t)

SpecRelay == Init /\ [][NextRelay]_vars

\* round(t / (d * 1000000) * 100) for d > 0: the integer p with
\* x - 1/2 < p <= x + 1/2 for x = 100 t / (1000000 d).
RoundedPercent(t, d) ==
    CHOOSE p \in 0..200 :
        /\ 200 * t - 1000000 * d < 2000000 * d * p
        /\ 2000000 * d * p <= 200 * t + 1000000 * d

\* C27: a step in which the engine of a Converting job with probed
\* duration d emits key=t changes the job's record so: out_time_ms with
\* d known sets progress to min(99, round(t / (d * 1000000) * 100)) and no
\* other field; total_size sets the output size to t and no other field;
\* any other key, and out_time_ms with d unknown, leaves the record as it is.
C27_RelayFunction ==
    [][ \A rk \in Jobs, key \in EventKeys, t \in EventNumbers :
          ( /\ engineMessage(rk[1], rk[2], [type |-> key, value |-> ToText(t)])
            /\ StatusOf(files, Job(rk[1], rk[2])) = "converting" )
            => LET a == RecordOf(files, Job(rk[1], rk[2]))
                   b == RecordOf(files', Job(rk[1], rk[2]))
                   d == runs[rk[1]].dur[rk[2]]
               IN  b = CASE key = "out_time_ms" /\ d # 0
                              -> [a EXCEPT !.progress = Min(99, RoundedPercent(t, d))]
                         [] key = "total_size" -> [a EXCEPT !.outputSize = t]
                         [] OTHER -> a ]_vars

\* C27 witness: a Converting job with duration 1 in exec shows progress 50
\* (out_time_ms=500000) and an output size the engine reported, and a job
\* without a known duration in exec shows an output size and progress 0.
C27_Witness ==
    /\ \E rk \in Jobs :
         /\ runs[rk[1]].pc[rk[2]] = "exec"
         /\ runs[rk[1]].dur[rk[2]] = 1
         /\ StatusOf(files, Job(rk[1], rk[2])) = "converting"
         /\ RecordOf(files, Job(rk[1], rk[2])).progress = 50
         /\ RecordOf(files, Job(rk[1], rk[2])).outputSize = 2000000
    /\ \E rk \in Jobs :
         /\ runs[rk[1]].pc[rk[2]] = "exec"
         /\ runs[rk[1]].dur[rk[2]] = 0
         /\ StatusOf(files, Job(rk[1], rk[2])) = "converting"
         /\ RecordOf(files, Job(rk[1], rk[2])).progress = 0
         /\ RecordOf(files, Job(rk[1], rk[2])).outputSize = 5000

====
